---------------------------- MODULE Spec2Model ----------------------------
(***************************************************************************)
(* Model of the tree-sitter AST to DOT converter (c_ast_to_dot.py) and of  *)
(* the C/C++ header classifier (check_if_c_header.py).                     *)
(*                                                                         *)
(* A Python str is a sequence of one-character strings, so that escaping,  *)
(* truncation, formatting and joining are computed character by character. *)
(***************************************************************************)
EXTENDS Integers, Sequences, FiniteSets, TLC

VARIABLES
    \* ---- ASTToDot instance and the last generate_dot call on it
    self,          \* [node_counter, dot_content] of the ASTToDot instance
    tree,          \* root_node argument of the last generate_dot call
    filename,      \* filename argument of the last generate_dot call
    ret,           \* document returned by the last generate_dot call
    entered,       \* "none" | "fresh" | "used": instance state at call entry
    \* ---- escape_label applied to one input
    esc_in, esc_out, esc_done,
    \* ---- one run of main()
    pc, args, env, root_node, dot_file, disk, image_run, exit_code,
    \* ---- one call of check_if_c_header
    hdr, hdr_done, cpp_ret, c_ret

dotVars  == <<self, tree, filename, ret, entered>>
escVars  == <<esc_in, esc_out, esc_done>>
mainVars == <<pc, args, env, root_node, dot_file, disk, image_run, exit_code>>
hdrVars  == <<hdr, hdr_done, cpp_ret, c_ret>>
vars     == <<dotVars, escVars, mainVars, hdrVars>>

(***************************************************************************)
(* Bounds of the explored inputs.                                          *)
(***************************************************************************)
MaxNodes ==
    4
MaxEscLen ==
    3
MaxTextLen ==
    22

(***************************************************************************)
(* String literals of c_ast_to_dot.py.                                     *)
(***************************************************************************)
NodeIdPrefix ==
    <<"n", "o", "d", "e", "_">>

Indent ==
    <<" ", " ", " ", " ">>

LabelOpen ==
    <<" ", "[", "l", "a", "b", "e", "l", "=", "\"">>

FillOpen ==
    <<"\"", ",", " ", "f", "i", "l", "l", "c", "o", "l", "o", "r", "=", "\"">>

StyleClose ==
    <<"\"", ",", " ", "s", "t", "y", "l", "e", "=", "\"", "f", "i", "l", "l",
      "e", "d", "\"", "]", ";">>

LightBlue ==
    <<"l", "i", "g", "h", "t", "b", "l", "u", "e">>

LightGreen ==
    <<"l", "i", "g", "h", "t", "g", "r", "e", "e", "n">>

Arrow ==
    <<" ", "-", ">", " ">>

Semicolon ==
    <<";">>

DigraphOpen ==
    <<"d", "i", "g", "r", "a", "p", "h", " ">>

AstOpen ==
    <<"_", "a", "s", "t", " ", "{">>

RankdirLine ==
    <<" ", " ", " ", " ", "r", "a", "n", "k", "d", "i", "r", "=", "T", "B",
      ";">>

NodeAttrLine ==
    <<" ", " ", " ", " ", "n", "o", "d", "e", " ", "[", "s", "h", "a", "p",
      "e", "=", "r", "e", "c", "t", "a", "n", "g", "l", "e", ",", " ", "f",
      "o", "n", "t", "n", "a", "m", "e", "=", "\"", "A", "r", "i", "a", "l",
      "\"", ",", " ", "f", "o", "n", "t", "s", "i", "z", "e", "=", "1", "0",
      "]", ";">>

EdgeAttrLine ==
    <<" ", " ", " ", " ", "e", "d", "g", "e", " ", "[", "f", "o", "n", "t",
      "n", "a", "m", "e", "=", "\"", "A", "r", "i", "a", "l", "\"", ",", " ",
      "f", "o", "n", "t", "s", "i", "z", "e", "=", "8", "]", ";">>

FooterLine ==
    <<"}">>

QuoteType ==
    <<"q", "u", "o", "t", "e">>

TokenType ==
    <<"t", "o", "k", "e", "n">>

UnknownType ==
    <<"u", "n", "k", "n", "o", "w", "n">>

Ellipsis ==
    <<".", ".", ".">>

LineBreak ==
    <<"\\", "n">>

(***************************************************************************)
(* Generic string helpers (Python built-ins).                              *)
(***************************************************************************)
Min(a, b) ==
    IF a <= b THEN a ELSE b

\* str(n) for n >= 0: decimal digits
Digit(d) ==
    <<CASE d = 0 -> "0" [] d = 1 -> "1" [] d = 2 -> "2" [] d = 3 -> "3"
        [] d = 4 -> "4" [] d = 5 -> "5" [] d = 6 -> "6" [] d = 7 -> "7"
        [] d = 8 -> "8" [] d = 9 -> "9">>

RECURSIVE ToDec(_)
ToDec(n) ==
    IF n < 10 THEN Digit(n) ELSE ToDec(n \div 10) \o Digit(n % 10)

\* text.replace(old, new) for a one-character old
RECURSIVE Replace(_, _, _)
Replace(text, old, new) ==
    IF text = <<>> THEN <<>>
    ELSE (IF Head(text) = old THEN new ELSE <<Head(text)>>)
             \o Replace(Tail(text), old, new)

\* text[:n]
Slice(text, n) ==
    SubSeq(text, 1, Min(n, Len(text)))

\* sep.join(lines)
RECURSIVE Join(_, _)
Join(lines, sep) ==
    IF lines = <<>> THEN <<>>
    ELSE IF Len(lines) = 1 THEN lines[1]
    ELSE lines[1] \o sep \o Join(Tail(lines), sep)

\* str.isspace(): non-empty and every character is whitespace
WhitespaceChars ==
    {" ", "\t", "\n", "\r", "\f"}

IsSpace(text) ==
    /\ text # <<>>
    /\ \A i \in 1..Len(text) : text[i] \in WhitespaceChars

(***************************************************************************)
(* ASTToDot.escape_label                                                   *)
(***************************************************************************)
escape_label_quotes_first(text) ==
    LET t1 == Replace(text, "\"", <<"\\", "\"">>)
        t2 == Replace(t1, "\\", <<"\\", "\\">>)
        t3 == Replace(Replace(t2, "\n", <<"\\", "n">>), "\r", <<"\\", "r">>)
        t4 == Replace(Replace(t3, "<", <<"\\", "<">>), ">", <<"\\", ">">>)
        t5 == Replace(Replace(t4, "{", <<"\\", "{">>), "}", <<"\\", "}">>)
    IN  Replace(t5, "|", <<"\\", "|">>)

escape_label(text) ==
    LET t1 == Replace(text, "\\", <<"\\", "\\">>)
        t2 == Replace(t1, "\"", <<"\\", "\"">>)
        t3 == Replace(Replace(t2, "\n", <<"\\", "n">>), "\r", <<"\\", "r">>)
        t4 == Replace(Replace(t3, "<", <<"\\", "<">>), ">", <<"\\", ">">>)
        t5 == Replace(Replace(t4, "{", <<"\\", "{">>), "}", <<"\\", "}">>)
    IN  Replace(t5, "|", <<"\\", "|">>)

(***************************************************************************)
(* Syntax nodes as the converter reads them: node.type, node.text,         *)
(* node.children, node.child_count.  A tree is a record                    *)
(*   [root, children : node -> Seq(node), type : node -> str,              *)
(*    text : node -> None or bytes].                                       *)
(***************************************************************************)
NoneText ==
    [is_none |-> TRUE, bytes |-> <<>>]

Bytes(s) ==
    [is_none |-> FALSE, bytes |-> s]

\* truth value of node.text: None and b'' are falsy
TextTruthy(t) ==
    (~t.is_none) /\ t.bytes # <<>>

child_count(T, node) ==
    Len(T.children[node])

\* parent_id=None
NoneId ==
    <<>>

\* truth value of parent_id: None and '' are falsy
IdTruthy(id) ==
    id # <<>>

(***************************************************************************)
(* ASTToDot.__init__ and ASTToDot.get_node_id                              *)
(***************************************************************************)
ASTToDot_init ==
    [node_counter |-> 0, dot_content |-> <<>>]

get_node_id_reuse(st) ==
    [st |-> st,
     id |-> NodeIdPrefix \o ToDec(st.node_counter)]

get_node_id(st) ==
    [st |-> [st EXCEPT !.node_counter = @ + 1],
     id |-> NodeIdPrefix \o ToDec(st.node_counter + 1)]

(***************************************************************************)
(* ASTToDot.node_to_dot: label and colour (lines 46-88)                    *)
(***************************************************************************)
is_leaf_any_childless(T, node) ==
    child_count(T, node) = 0

is_leaf(T, node) ==
    child_count(T, node) = 0 /\ TextTruthy(T.text[node])

truncate_off_by_one(text_content) ==
    IF Len(text_content) >= 20
    THEN Slice(text_content, 17) \o Ellipsis
    ELSE text_content

truncate(text_content) ==
    IF Len(text_content) > 20
    THEN Slice(text_content, 17) \o Ellipsis
    ELSE text_content

leaf_type_no_sentinel(node_type) ==
    node_type

leaf_type(node_type) ==
    IF node_type = <<>> THEN QuoteType
    ELSE IF IsSpace(node_type) \/ node_type = <<"\n">> THEN TokenType
    ELSE node_type

internal_type(node_type) ==
    IF node_type # <<>> THEN node_type ELSE UnknownType

node_label(T, node) ==
    IF is_leaf(T, node)
    THEN escape_label(leaf_type(T.type[node])) \o LineBreak
             \o escape_label(truncate(T.text[node].bytes))
    ELSE escape_label(internal_type(T.type[node]))

node_color(T, node) ==
    IF is_leaf(T, node) THEN LightBlue ELSE LightGreen

(***************************************************************************)
(* ASTToDot.node_to_dot: emission and recursion (lines 42, 90-103)         *)
(***************************************************************************)
node_line(current_id, label, color) ==
    Indent \o current_id \o LabelOpen \o label \o FillOpen \o color
        \o StyleClose

edge_line_reversed(parent_id, current_id) ==
    Indent \o current_id \o Arrow \o parent_id \o Semicolon

edge_line(parent_id, current_id) ==
    Indent \o parent_id \o Arrow \o current_id \o Semicolon

RECURSIVE node_to_dot(_, _, _, _)
RECURSIVE node_to_dot_children(_, _, _, _)

RECURSIVE node_to_dot_children_reversed(_, _, _, _)

node_to_dot_children_reversed(st, T, kids, current_id) ==
    IF kids = <<>> THEN st
    ELSE node_to_dot_children_reversed(
             node_to_dot(st, T, kids[Len(kids)], current_id),
             T, SubSeq(kids, 1, Len(kids) - 1), current_id)

\* for child in node.children: self.node_to_dot(child, current_id)
node_to_dot_children(st, T, kids, current_id) ==
    IF kids = <<>> THEN st
    ELSE node_to_dot_children(node_to_dot(st, T, Head(kids), current_id),
                              T, Tail(kids), current_id)

node_to_dot(st, T, node, parent_id) ==
    LET g          == get_node_id(st)
        current_id == g.id
        dot_line   == node_line(current_id, node_label(T, node),
                                node_color(T, node))
        st1        == [g.st EXCEPT !.dot_content = Append(@, dot_line)]
        st2        == IF IdTruthy(parent_id)
                      THEN [st1 EXCEPT !.dot_content =
                                Append(@, edge_line(parent_id, current_id))]
                      ELSE st1
    IN  node_to_dot_children(st2, T, T.children[node], current_id)

(***************************************************************************)
(* ASTToDot.generate_dot                                                   *)
(***************************************************************************)
dot_header(name) ==
    << DigraphOpen \o name \o AstOpen,
       RankdirLine,
       NodeAttrLine,
       EdgeAttrLine,
       <<>> >>

generate_dot_no_reset(st, root, name) ==
    LET st1 == [st EXCEPT !.dot_content = @ \o dot_header(name)]
        st2 == node_to_dot(st1, root, root.root, NoneId)
        st3 == [st2 EXCEPT !.dot_content = Append(@, FooterLine)]
    IN  [st |-> st3, ret |-> Join(st3.dot_content, <<"\n">>)]

generate_dot(st, root, name) ==
    LET st0 == [st EXCEPT !.node_counter = 0, !.dot_content = <<>>]
        st1 == [st0 EXCEPT !.dot_content = @ \o dot_header(name)]
        st2 == node_to_dot(st1, root, root.root, NoneId)
        st3 == [st2 EXCEPT !.dot_content = Append(@, FooterLine)]
    IN  [st |-> st3, ret |-> Join(st3.dot_content, <<"\n">>)]

(***************************************************************************)
(* Input universes.                                                        *)
(***************************************************************************)
NoTree ==
    [root |-> 0, children |-> <<>>, type |-> <<>>, text |-> <<>>]

\* orders in which siblings are listed: ascending, descending and rotated
SiblingOrders(N) ==
    {[i \in 1..N |-> i],
     [i \in 1..N |-> N + 1 - i],
     [i \in 1..N |-> ((i + (N \div 2) - 1) % N) + 1]}

\* parent of every non-root node; the root is node 1
ParentFns(N) ==
    {p \in [2..N -> 1..N] : \A i \in 2..N : p[i] < i}

\* the tree with N nodes, parents p, siblings listed in the order of perm,
\* node n carrying type "t<n>" and, unless (n + r) is a multiple of 3,
\* text "x<n>"
ShapeTree(N, p, perm, r) ==
    [root     |-> 1,
     children |-> [n \in 1..N |->
                      SelectSeq(perm, LAMBDA c : c # 1 /\ p[c] = n)],
     type     |-> [n \in 1..N |-> <<"t">> \o ToDec(n)],
     text     |-> [n \in 1..N |->
                      IF (n + r) % 3 = 0 THEN NoneText
                      ELSE Bytes(<<"x">> \o ToDec(n))]]

ShapeTrees ==
    UNION {UNION {{ShapeTree(N, p, perm, r) : perm \in SiblingOrders(N),
                                              r \in 0..1} :
                  p \in ParentFns(N)} : N \in 1..MaxNodes}

FileNames ==
    {<<"a">>, <<"m", "_", "1">>}

Letters ==
    <<"a", "b", "c", "d", "e", "f", "g", "h", "i", "j", "k", "l", "m",
      "n", "o", "p", "q", "r", "s", "t", "u", "v", "w", "x", "y", "z">>

\* the first L letters, with character c at position i
PatternText(L, i, c) ==
    [k \in 1..L |-> IF k = i THEN c ELSE Letters[((k - 1) % 26) + 1]]

PatternTexts ==
    {PatternText(L, i, c) : L \in 1..MaxTextLen, i \in 1..MaxTextLen,
                            c \in {"\\", "\"", "."}}

RichTypes ==
    {<<>>, <<" ">>, <<"\n">>, <<" ", "\t">>, <<"i", "d">>, <<"{">>,
     <<"\"">>, <<"a", " ">>, <<"\\", "n">>}

SmallTexts ==
    {NoneText, Bytes(<<>>), Bytes(<<"x">>), Bytes(<<"\"">>), Bytes(<<" ">>)}

RichNodes ==
    (RichTypes \X SmallTexts)
        \cup ({<<"i", "d">>, <<>>} \X {Bytes(t) : t \in PatternTexts})

\* a root of the given type and text with kids children, each child a
\* plain leaf
RichTree(ty, tx, kids) ==
    [root     |-> 1,
     children |-> [n \in 1..(1 + kids) |->
                      IF n = 1 THEN [k \in 1..kids |-> k + 1] ELSE <<>>],
     type     |-> [n \in 1..(1 + kids) |->
                      IF n = 1 THEN ty ELSE <<"i", "d">>],
     text     |-> [n \in 1..(1 + kids) |->
                      IF n = 1 THEN tx ELSE Bytes(<<"x">>)]]

RichTrees ==
    {RichTree(nd[1], nd[2], kids) : nd \in RichNodes, kids \in 0..1}

EscAlphabet ==
    {"\\", "\"", "\n", "\r", "<", ">", "{", "}", "|", "a", "n"}

EscInputs ==
    UNION {[1..k -> EscAlphabet] : k \in 0..MaxEscLen}

(***************************************************************************)
(* Specification Spec: one ASTToDot instance used for any number of        *)
(* generate_dot calls, with new instances constructed at any time.         *)
(***************************************************************************)
OtherInit ==
    /\ esc_in = <<>> /\ esc_out = <<>> /\ esc_done = FALSE
    /\ pc = "off" /\ args = <<>> /\ env = <<>> /\ root_node = NoTree
    /\ dot_file = <<>> /\ disk = <<>> /\ image_run = FALSE /\ exit_code = -1
    /\ hdr = <<>> /\ hdr_done = "no" /\ cpp_ret = FALSE /\ c_ret = FALSE

DotIdle ==
    /\ self = ASTToDot_init /\ tree = NoTree /\ filename = <<>>
    /\ ret = <<>> /\ entered = "none"

Init ==
    DotIdle /\ OtherInit

\* converter = ASTToDot()
NewInstance ==
    /\ entered # "none"
    /\ self' = ASTToDot_init
    /\ tree' = NoTree /\ filename' = <<>> /\ ret' = <<>>
    /\ entered' = "none"
    /\ UNCHANGED <<escVars, mainVars, hdrVars>>

\* converter.generate_dot(T, name)
GenerateDot ==
    \E T \in ShapeTrees, name \in FileNames :
        LET r == generate_dot(self, T, name)
        IN  /\ self' = r.st
            /\ ret' = r.ret
            /\ tree' = T
            /\ filename' = name
            /\ entered' = IF self = ASTToDot_init THEN "fresh" ELSE "used"
            /\ UNCHANGED <<escVars, mainVars, hdrVars>>

Next ==
    \/ NewInstance
    \/ GenerateDot

Spec ==
    Init /\ [][Next]_vars

(***************************************************************************)
(* Specification SpecLabel: generate_dot on a tree whose root has a given  *)
(* type, text and child count.                                             *)
(***************************************************************************)
InitLabel ==
    /\ self = ASTToDot_init
    /\ tree \in RichTrees
    /\ filename = <<"a">>
    /\ ret = <<>>
    /\ entered = "none"
    /\ OtherInit

GenerateDotGiven ==
    /\ entered = "none"
    /\ LET r == generate_dot(self, tree, filename)
       IN  /\ self' = r.st
           /\ ret' = r.ret
    /\ entered' = "fresh"
    /\ UNCHANGED <<tree, filename, escVars, mainVars, hdrVars>>

NextLabel ==
    GenerateDotGiven

SpecLabel ==
    InitLabel /\ [][NextLabel]_vars

(***************************************************************************)
(* Specification SpecEscape: escape_label on one input string.             *)
(***************************************************************************)
InitEscape ==
    /\ esc_in \in EscInputs
    /\ esc_out = <<>>
    /\ esc_done = FALSE
    /\ DotIdle
    /\ pc = "off" /\ args = <<>> /\ env = <<>> /\ root_node = NoTree
    /\ dot_file = <<>> /\ disk = <<>> /\ image_run = FALSE /\ exit_code = -1
    /\ hdr = <<>> /\ hdr_done = "no" /\ cpp_ret = FALSE /\ c_ret = FALSE

EscapeLabel ==
    /\ ~esc_done
    /\ esc_out' = escape_label(esc_in)
    /\ esc_done' = TRUE
    /\ UNCHANGED <<esc_in, dotVars, mainVars, hdrVars>>

NextEscape ==
    EscapeLabel

SpecEscape ==
    InitEscape /\ [][NextEscape]_vars

(***************************************************************************)
(* main(): os.path helpers, the file written by save_dot_file, and one     *)
(* action per stage of the run.                                            *)
(***************************************************************************)
\* index of the last occurrence of ch in path, 0 when absent
LastIndex(path, ch) ==
    IF \E i \in 1..Len(path) : path[i] = ch
    THEN CHOOSE i \in 1..Len(path) :
             path[i] = ch /\ \A j \in (i + 1)..Len(path) : path[j] # ch
    ELSE 0

\* os.path.basename(path)
basename(path) ==
    SubSeq(path, LastIndex(path, "/") + 1, Len(path))

\* os.path.splitext(path)[0]
splitext_root(path) ==
    LET sep == LastIndex(path, "/")
        dot == LastIndex(path, ".")
    IN  IF dot > sep /\ \E i \in (sep + 1)..(dot - 1) : path[i] # "."
        THEN SubSeq(path, 1, dot - 1)
        ELSE path

DotSuffix ==
    <<".", "d", "o", "t">>

NoFile ==
    [exists |-> FALSE, content |-> <<>>]

OldFile ==
    [exists |-> TRUE, content |-> <<"o", "l", "d">>]

InputFiles ==
    {<<"a", ".", "c">>, <<"d", ".", "1", "/", "m", "_", "1", ".", "c">>}

Args ==
    [input_file : InputFiles,
     output     : {<<>>, <<"o", "u", "t">>},
     format     : {"png", "svg"},
     no_image   : BOOLEAN]

NoEnv ==
    [exists |-> "n/a", parse |-> "n/a", save |-> "n/a", image |-> "n/a",
     disk0 |-> NoFile]

InitMain ==
    /\ pc = "start"
    /\ args \in Args
    /\ disk \in {NoFile, OldFile}
    /\ env = [NoEnv EXCEPT !.disk0 = disk]
    /\ root_node = NoTree
    /\ dot_file = <<>>
    /\ image_run = FALSE
    /\ exit_code = -1
    /\ DotIdle
    /\ esc_in = <<>> /\ esc_out = <<>> /\ esc_done = FALSE
    /\ hdr = <<>> /\ hdr_done = "no" /\ cpp_ret = FALSE /\ c_ret = FALSE

\* lines 188-201: parse the arguments, check that the input file exists
MainValidate ==
    /\ pc = "start"
    /\ \E exists \in BOOLEAN :
           /\ env' = [env EXCEPT !.exists = IF exists THEN "yes" ELSE "no"]
           /\ IF ~exists
              THEN pc' = "exit" /\ exit_code' = 1
              ELSE pc' = "parse" /\ UNCHANGED exit_code
    /\ UNCHANGED <<args, root_node, dot_file, disk, image_run,
                   dotVars, escVars, hdrVars>>

\* parse_c_file: the root node, or None when the file is not found or
\* reading or parsing raises
ParseOutcomes ==
    {[status |-> "ok", root |-> T] : T \in ShapeTrees}
        \cup {[status |-> "not_found", root |-> NoTree],
              [status |-> "error", root |-> NoTree]}

\* lines 204-208
MainParse ==
    /\ pc = "parse"
    /\ \E out \in ParseOutcomes :
           /\ env' = [env EXCEPT !.parse = out.status]
           /\ root_node' = out.root
           /\ IF out.status # "ok"
              THEN pc' = "exit" /\ exit_code' = 1
              ELSE pc' = "generate" /\ UNCHANGED exit_code
    /\ UNCHANGED <<args, dot_file, disk, image_run,
                   dotVars, escVars, hdrVars>>

\* lines 211-220: a new ASTToDot, generate_dot, choice of the output path
MainGenerate ==
    /\ pc = "generate"
    /\ LET base_name == splitext_root(basename(args.input_file))
           r         == generate_dot(ASTToDot_init, root_node, base_name)
       IN  /\ self' = r.st
           /\ ret' = r.ret
           /\ tree' = root_node
           /\ filename' = base_name
           /\ entered' = "fresh"
    /\ dot_file' = IF args.output # <<>> THEN args.output
                   ELSE splitext_root(args.input_file) \o DotSuffix
    /\ pc' = "save"
    /\ UNCHANGED <<args, env, root_node, disk, image_run, exit_code,
                   escVars, hdrVars>>

\* save_dot_file: open(output_path, 'w') may fail and leave the file as it
\* was; f.write may fail after the file was truncated
SaveOutcomes(dot_content, file) ==
    {[status |-> "ok", file |-> [exists |-> TRUE, content |-> dot_content]],
     [status |-> "open_fails", file |-> file],
     [status |-> "write_fails", file |-> [exists |-> TRUE, content |-> <<>>]],
     [status |-> "write_fails",
      file |-> [exists |-> TRUE,
                content |-> Slice(dot_content, Len(dot_content) \div 2)]]}

MainSave_ignore_failure ==
    /\ pc = "save"
    /\ \E out \in SaveOutcomes(ret, disk) :
           /\ env' = [env EXCEPT !.save = out.status]
           /\ disk' = out.file
           /\ pc' = IF args.no_image THEN "return" ELSE "image"
           /\ UNCHANGED exit_code
    /\ UNCHANGED <<args, root_node, dot_file, image_run,
                   dotVars, escVars, hdrVars>>

\* lines 222-224
MainSave ==
    /\ pc = "save"
    /\ \E out \in SaveOutcomes(ret, disk) :
           /\ env' = [env EXCEPT !.save = out.status]
           /\ disk' = out.file
           /\ IF out.status # "ok"
              THEN pc' = "exit" /\ exit_code' = 1
              ELSE /\ pc' = IF args.no_image THEN "return" ELSE "image"
                   /\ UNCHANGED exit_code
    /\ UNCHANGED <<args, root_node, dot_file, image_run,
                   dotVars, escVars, hdrVars>>

\* generate_image: os.system succeeds, reports a failed dot command by its
\* status, or raises; main ignores the returned flag
ImageOutcomes ==
    {"ok", "dot_failed", "raised"}

\* lines 226-229
MainImage ==
    /\ pc = "image"
    /\ \E out \in ImageOutcomes :
           env' = [env EXCEPT !.image = out]
    /\ image_run' = TRUE
    /\ pc' = "return"
    /\ UNCHANGED <<args, root_node, dot_file, disk, exit_code,
                   dotVars, escVars, hdrVars>>

\* lines 231-232
MainReturn ==
    /\ pc = "return"
    /\ exit_code' = 0
    /\ pc' = "exit"
    /\ UNCHANGED <<args, env, root_node, dot_file, disk, image_run,
                   dotVars, escVars, hdrVars>>

NextMain ==
    \/ MainValidate
    \/ MainParse
    \/ MainGenerate
    \/ MainSave
    \/ MainImage
    \/ MainReturn

SpecMain ==
    InitMain /\ [][NextMain]_vars

(***************************************************************************)
(* check_if_c_header.py                                                    *)
(***************************************************************************)
CPP_SOURCE_SUFFIXES ==
    {<<".", "c", "p", "p">>,
     <<".", "h", "p", "p">>,
     <<".", "c", "c">>,
     <<".", "c", "x", "x">>,
     <<".", "h", "x", "x">>,
     <<".", "h", "h">>,
     <<".", "i", "x", "x">>,
     <<".", "c", "p", "p", "m">>,
     <<".", "c", "c", "m">>}

CPP_ONLY_NODE_TYPES ==
    {"abstract_declarator", "access_specifier", "alias_declaration",
     "alignas_specifier", "attribute_declaration", "auto",
     "class_specifier", "concept_definition", "decltype_specifier",
     "delete_expression", "dependent_type_specifier",
     "enum_class_specifier", "explicit_specifier", "friend_declaration",
     "lambda_expression", "namespace_definition", "new_expression",
     "noexcept_specifier", "operator_cast", "override_specifier",
     "parameter_pack_expansion", "qualified_identifier",
     "reference_declarator", "static_assert_declaration",
     "template_argument_list", "template_declaration", "template_function",
     "template_method", "template_parameter_list", "template_type", "this",
     "throw_specifier", "using_declaration", "virtual_function_specifier",
     "virtual_specifier"}

\* str.lower() on the letters that occur in suffixes
LowerChar(ch) ==
    CASE ch = "C" -> "c" [] ch = "P" -> "p" [] ch = "H" -> "h"
      [] ch = "X" -> "x" [] ch = "M" -> "m" [] ch = "I" -> "i"
      [] OTHER -> ch

lower(text) ==
    [i \in 1..Len(text) |-> LowerChar(text[i])]

CSuffix ==
    <<".", "c">>

(***************************************************************************)
(* The header's directory as parent.iterdir() yields it, and the header's  *)
(* content as read_bytes and cpp_parser.parse give it.                     *)
(***************************************************************************)
MaxSiblings ==
    2

SiblingSuffixes ==
    {<<".", "c", "p", "p">>, <<".", "H", "P", "P">>, <<".", "c">>,
     <<".", "t", "x", "t">>}

\* a directory entry: whether it is the header itself, whether is_file()
\* holds, and its suffix
DirEntries ==
    [is_self : {FALSE}, is_file : BOOLEAN, suffix : SiblingSuffixes]
        \cup [is_self : {TRUE}, is_file : {TRUE},
              suffix : {<<".", "h">>, <<".", "h", "p", "p">>}]

\* entries yielded in order, then the end of the listing or an exception
Listings ==
    [entries : UNION {[1..k -> DirEntries] : k \in 0..MaxSiblings},
     raises  : BOOLEAN]

HdrNodeTypes ==
    {"declaration", "class_specifier", "auto"}

\* parse trees: a translation_unit, optionally with one child, optionally
\* with one grandchild; children are named or anonymous
HdrTree(depth, ctype, cnamed, gtype, gnamed) ==
    [root     |-> 1,
     children |-> [n \in 1..(depth + 1) |->
                      IF n <= depth THEN <<n + 1>> ELSE <<>>],
     type     |-> [n \in 1..(depth + 1) |->
                      IF n = 1 THEN "translation_unit"
                      ELSE IF n = 2 THEN ctype ELSE gtype],
     named    |-> [n \in 1..(depth + 1) |->
                      IF n = 1 THEN TRUE
                      ELSE IF n = 2 THEN cnamed ELSE gnamed]]

HdrTrees ==
    {HdrTree(depth, ct, cn, gt, gn) :
        depth \in 0..2, ct \in HdrNodeTypes, cn \in BOOLEAN,
        gt \in HdrNodeTypes, gn \in BOOLEAN}

\* the file: unreadable, blank (empty or whitespace only), or source text
\* with the given parse tree
HdrContents ==
    {[readable |-> FALSE, blank |-> FALSE, parse |-> HdrTree(0, "", TRUE, "", TRUE)],
     [readable |-> TRUE, blank |-> TRUE, parse |-> HdrTree(0, "", TRUE, "", TRUE)]}
        \cup {[readable |-> TRUE, blank |-> FALSE, parse |-> T] : T \in HdrTrees}

HdrInputs ==
    [listing : Listings, content : HdrContents]

(***************************************************************************)
(* determine_if_cpp_header                                                 *)
(***************************************************************************)
\* node.named_children
named_children(T, node) ==
    SelectSeq(T.children[node], LAMBDA c : T.named[c])

RECURSIVE find_cpp_node(_, _)
RECURSIVE find_cpp_node_in(_, _)

\* for child in node.named_children: first non-None find_cpp_node(child)
find_cpp_node_in(T, kids) ==
    IF kids = <<>> THEN 0
    ELSE LET found_node == find_cpp_node(T, Head(kids))
         IN  IF found_node # 0 THEN found_node
             ELSE find_cpp_node_in(T, Tail(kids))

\* the node found, 0 for None
find_cpp_node(T, node) ==
    IF T.type[node] \in CPP_ONLY_NODE_TYPES THEN node
    ELSE find_cpp_node_in(T, named_children(T, node))

\* lines 69-89: "cpp" for return True, "c" for return False, "parse" when
\* the function goes on to step 2
RECURSIVE sibling_check(_, _, _)
sibling_check(listing, i, has_c_source) ==
    IF i > Len(listing.entries)
    THEN IF listing.raises THEN "parse"
         ELSE IF has_c_source THEN "c" ELSE "parse"
    ELSE LET sibling == listing.entries[i]
         IN  IF sibling.is_self
             THEN sibling_check(listing, i + 1, has_c_source)
             ELSE IF sibling.is_file
                         /\ lower(sibling.suffix) \in CPP_SOURCE_SUFFIXES
             THEN "cpp"
             ELSE IF sibling.is_file /\ lower(sibling.suffix) = CSuffix
             THEN sibling_check(listing, i + 1, TRUE)
             ELSE sibling_check(listing, i + 1, has_c_source)

determine_if_cpp_header(h) ==
    LET step1 == sibling_check(h.listing, 1, FALSE)
    IN  IF step1 = "cpp" THEN TRUE
        ELSE IF step1 = "c" THEN FALSE
        ELSE IF ~h.content.readable THEN FALSE
        ELSE IF h.content.blank THEN FALSE
        ELSE find_cpp_node(h.content.parse, h.content.parse.root) # 0

check_if_c_header(h) ==
    ~determine_if_cpp_header(h)

(***************************************************************************)
(* Specification SpecHeader: one header file classified once.              *)
(***************************************************************************)
InitHeader ==
    /\ hdr \in HdrInputs
    /\ hdr_done = "no"
    /\ cpp_ret = FALSE
    /\ c_ret = FALSE
    /\ DotIdle
    /\ esc_in = <<>> /\ esc_out = <<>> /\ esc_done = FALSE
    /\ pc = "off" /\ args = <<>> /\ env = <<>> /\ root_node = NoTree
    /\ dot_file = <<>> /\ disk = <<>> /\ image_run = FALSE /\ exit_code = -1

DetermineIfCppHeader ==
    /\ hdr_done = "no"
    /\ cpp_ret' = determine_if_cpp_header(hdr)
    /\ hdr_done' = "determine"
    /\ UNCHANGED <<hdr, c_ret, dotVars, escVars, mainVars>>

CheckIfCHeader ==
    /\ hdr_done = "no"
    /\ cpp_ret' = determine_if_cpp_header(hdr)
    /\ c_ret' = check_if_c_header(hdr)
    /\ hdr_done' = "check"
    /\ UNCHANGED <<hdr, dotVars, escVars, mainVars>>

NextHeader ==
    \/ DetermineIfCppHeader
    \/ CheckIfCHeader

SpecHeader ==
    InitHeader /\ [][NextHeader]_vars

(***************************************************************************)
(* Reading an emitted document back: preorder of the input tree, and the   *)
(* node declarations and edge lines found in dot_content.                  *)
(***************************************************************************)
Nodes(T) ==
    DOMAIN T.children

RECURSIVE Preorder(_, _)
RECURSIVE PreorderAll(_, _)

\* preorder of the subtrees rooted at the listed nodes, left to right
PreorderAll(T, kids) ==
    IF kids = <<>> THEN <<>>
    ELSE Preorder(T, Head(kids)) \o PreorderAll(T, Tail(kids))

Preorder(T, n) ==
    <<n>> \o PreorderAll(T, T.children[n])

Range(s) ==
    {s[i] : i \in 1..Len(s)}

\* position of x in sequence s, 0 when absent
PosIn(s, x) ==
    IF \E i \in 1..Len(s) : s[i] = x
    THEN CHOOSE i \in 1..Len(s) : s[i] = x /\ \A j \in 1..(i - 1) : s[j] # x
    ELSE 0

IsChildOf(T, c, p) ==
    c \in Range(T.children[p])

HasPrefix(s, pre) ==
    Len(s) >= Len(pre) /\ SubSeq(s, 1, Len(pre)) = pre

HasSuffix(s, suf) ==
    Len(s) >= Len(suf) /\ SubSeq(s, Len(s) - Len(suf) + 1, Len(s)) = suf

IdRange ==
    0..(3 * MaxNodes)

NodeIdOf(k) ==
    NodeIdPrefix \o ToDec(k)

DeclPrefix(k) ==
    Indent \o NodeIdOf(k) \o LabelOpen

IsNodeDecl(line) ==
    \E k \in IdRange : HasPrefix(line, DeclPrefix(k))

DeclId(line) ==
    CHOOSE k \in IdRange : HasPrefix(line, DeclPrefix(k))

IsEdgeLine(line) ==
    \E j, k \in IdRange :
        line = Indent \o NodeIdOf(j) \o Arrow \o NodeIdOf(k) \o Semicolon

DeclSuffix(color) ==
    FillOpen \o color \o StyleClose

ColorOf(line) ==
    IF HasSuffix(line, DeclSuffix(LightBlue)) THEN LightBlue
    ELSE IF HasSuffix(line, DeclSuffix(LightGreen)) THEN LightGreen
    ELSE <<>>

LabelOf(line) ==
    SubSeq(line, Len(DeclPrefix(DeclId(line))) + 1,
           Len(line) - Len(DeclSuffix(ColorOf(line))))

Decls(content) ==
    SelectSeq(content, IsNodeDecl)

Edges(content) ==
    SelectSeq(content, IsEdgeLine)

\* the call whose result the state holds
Called ==
    entered # "none"

Pre ==
    Preorder(tree, tree.root)

\* id the pass gives node n: its preorder rank
RankId(n) ==
    NodeIdOf(PosIn(Pre, n))

\* line number of the declaration of node n / of the edge p -> c, 0 if none
DeclPos(n) ==
    LET c == self.dot_content
    IN  IF \E i \in 1..Len(c) : HasPrefix(c[i], Indent \o RankId(n) \o LabelOpen)
        THEN CHOOSE i \in 1..Len(c) :
                 HasPrefix(c[i], Indent \o RankId(n) \o LabelOpen)
        ELSE 0

EdgePos(p, c) ==
    PosIn(self.dot_content,
          Indent \o RankId(p) \o Arrow \o RankId(c) \o Semicolon)

(***************************************************************************)
(* C1: one generate_dot call on a tree of N nodes emits exactly N node     *)
(* declarations, and the k-th declaration is that of the k-th node in      *)
(* depth-first preorder and carries the id node_k, so ids are pairwise     *)
(* distinct.                                                               *)
(***************************************************************************)
C1_PreorderIds ==
    Called =>
        LET decls == Decls(self.dot_content)
        IN  /\ Len(Pre) = Cardinality(Nodes(tree))
            /\ Len(decls) = Cardinality(Nodes(tree))
            /\ \A k \in 1..Len(decls) :
                   /\ k <= Len(Pre)
                   /\ decls[k] = Indent \o NodeIdOf(k) \o LabelOpen
                                     \o node_label(tree, Pre[k]) \o FillOpen
                                     \o node_color(tree, Pre[k])
                                     \o StyleClose
            /\ \A j, k \in 1..Len(decls) :
                   DeclId(decls[j]) = DeclId(decls[k]) => j = k

C1_Witness ==
    /\ Called
    /\ Cardinality(Nodes(tree)) = 4
    /\ Pre = <<1, 3, 4, 2>>
    /\ Len(Decls(self.dot_content)) = 4

(***************************************************************************)
(* C2: every non-root node c has exactly one edge line, it reads           *)
(* id(parent(c)) -> id(c) and is the line right after c's declaration; no  *)
(* edge line targets the root; edge lines = node declarations - 1.         *)
(***************************************************************************)
C2_EdgeAfterDecl ==
    Called =>
        LET c == self.dot_content
        IN  /\ \A n \in Nodes(tree) :
                   /\ DeclPos(n) > 0
                   /\ \A p \in Nodes(tree) :
                          IsChildOf(tree, n, p) =>
                              /\ DeclPos(n) < Len(c)
                              /\ c[DeclPos(n) + 1] =
                                     Indent \o RankId(p) \o Arrow
                                         \o RankId(n) \o Semicolon
            /\ \A i \in 1..Len(c) :
                   IsEdgeLine(c[i]) =>
                       /\ i > 1
                       /\ IsNodeDecl(c[i - 1])
                       /\ DeclId(c[i - 1]) # 1
                       /\ \A j \in IdRange :
                              c[i] # Indent \o NodeIdOf(j) \o Arrow
                                         \o RankId(tree.root) \o Semicolon
            /\ DeclPos(tree.root) > 0
            /\ DeclPos(tree.root) < Len(c)
            /\ ~IsEdgeLine(c[DeclPos(tree.root) + 1])
            /\ Len(Edges(c)) = Len(Decls(c)) - 1

C2_Witness ==
    /\ Called
    /\ Cardinality(Nodes(tree)) = 4
    /\ Len(Edges(self.dot_content)) = 3
    /\ tree.children[1] = <<3, 2>>

(***************************************************************************)
(* C3 as stated: for every node p, the declaration of p and the edges from *)
(* p into all its direct children come before the declaration of any       *)
(* grandchild of p, and children are visited in their given order.         *)
(***************************************************************************)
ChildrenInOrder ==
    \A p \in Nodes(tree) :
        \A i \in 1..(Len(tree.children[p]) - 1) :
            \A d \in Range(Preorder(tree, tree.children[p][i])) :
                /\ DeclPos(d) > 0
                /\ DeclPos(d) < DeclPos(tree.children[p][i + 1])

C3_AllChildEdgesBeforeGrandchildren ==
    Called =>
        /\ \A p, c, c2, g \in Nodes(tree) :
               (IsChildOf(tree, c, p) /\ IsChildOf(tree, c2, p)
                    /\ IsChildOf(tree, g, c2)) =>
                   /\ DeclPos(p) > 0
                   /\ DeclPos(p) < DeclPos(g)
                   /\ EdgePos(p, c) > 0
                   /\ EdgePos(p, c) < DeclPos(g)
        /\ ChildrenInOrder

(***************************************************************************)
(* C3 amended: the declaration of p comes before every other line of p's   *)
(* subtree; the edge from p into a child c is the line right after the     *)
(* declaration of c, hence before the declaration of any child of c (the   *)
(* edge into a later child follows the whole subtree of an earlier one);   *)
(* children are visited in their given order.                              *)
(***************************************************************************)
C3_EdgeBeforeOwnSubtree ==
    Called =>
        /\ \A p \in Nodes(tree) :
               /\ DeclPos(p) > 0
               /\ \A d \in Range(Preorder(tree, p)) \ {p} :
                      DeclPos(p) < DeclPos(d)
        /\ \A p, c \in Nodes(tree) :
               IsChildOf(tree, c, p) =>
                   /\ EdgePos(p, c) = DeclPos(c) + 1
                   /\ \A g \in Range(tree.children[c]) :
                          EdgePos(p, c) < DeclPos(g)
        /\ ChildrenInOrder

C3_Witness ==
    /\ Called
    /\ \E p, c, c2, g \in Nodes(tree) :
           /\ tree.children[p] = <<c, c2>>
           /\ IsChildOf(tree, g, c)
           /\ DeclPos(g) > 0
           /\ DeclPos(g) < EdgePos(p, c2)

(***************************************************************************)
(* C4: generate_dot resets node_counter and dot_content at its start:      *)
(* whatever calls the instance served before, the document it returns for  *)
(* (T, n), and the state it is left in, are those of a fresh instance      *)
(* called with (T, n).                                                     *)
(***************************************************************************)
C4_SameAsFreshInstance ==
    Called =>
        /\ ret = generate_dot(ASTToDot_init, tree, filename).ret
        /\ self = generate_dot(ASTToDot_init, tree, filename).st
        /\ self.node_counter = Cardinality(Nodes(tree))

C4_Witness ==
    /\ entered = "used"
    /\ Cardinality(Nodes(tree)) >= 3
    /\ ret = generate_dot(ASTToDot_init, tree, filename).ret

(***************************************************************************)
(* C5: escape_label maps its input character by character: a backslash to  *)
(* two backslashes, a double quote to backslash quote, newline to          *)
(* backslash n, carriage return to backslash r, each of < > { } | to a     *)
(* backslash and the character, anything else to itself; no character an   *)
(* earlier rule inserted is escaped again.                                 *)
(***************************************************************************)
EscImage(ch) ==
    CASE ch = "\\" -> <<"\\", "\\">>
      [] ch = "\"" -> <<"\\", "\"">>
      [] ch = "\n" -> <<"\\", "n">>
      [] ch = "\r" -> <<"\\", "r">>
      [] ch \in {"<", ">", "{", "}", "|"} -> <<"\\", ch>>
      [] OTHER -> <<ch>>

RECURSIVE ImageOf(_)
ImageOf(text) ==
    IF text = <<>> THEN <<>>
    ELSE EscImage(Head(text)) \o ImageOf(Tail(text))

C5_EscapeCharwise ==
    esc_done =>
        /\ esc_out = ImageOf(esc_in)
        /\ (esc_in = <<"\\", "\"">> => esc_out = <<"\\", "\\", "\\", "\"">>)

C5_Witness ==
    /\ esc_done
    /\ esc_in = <<"\\", "\"">>
    /\ esc_out = <<"\\", "\\", "\\", "\"">>

(***************************************************************************)
(* Labels of the last call, per node of the input tree.                    *)
(***************************************************************************)
\* the declaration line emitted for node n (empty when there is none)
DeclOf(n) ==
    IF DeclPos(n) > 0 THEN self.dot_content[DeclPos(n)] ELSE <<>>

LeafNode(n) ==
    Len(tree.children[n]) = 0 /\ TextTruthy(tree.text[n])

WhitespaceOnly(ty) ==
    ty # <<>> /\ \A i \in 1..Len(ty) : ty[i] \in WhitespaceChars

(***************************************************************************)
(* C6 as stated: every node with type "" is labelled with the sentinel     *)
(* type quote and every node with a whitespace-only type with the sentinel *)
(* type token, whatever its child count and text.                          *)
(***************************************************************************)
TypeSegmentIs(n, ty) ==
    \/ LabelOf(DeclOf(n)) = ty
    \/ HasPrefix(LabelOf(DeclOf(n)), ty \o LineBreak)

C6_SentinelsForEveryNode ==
    Called =>
        \A n \in Nodes(tree) :
            /\ DeclPos(n) > 0
            /\ tree.type[n] = <<>> => TypeSegmentIs(n, QuoteType)
            /\ WhitespaceOnly(tree.type[n]) => TypeSegmentIs(n, TokenType)

(***************************************************************************)
(* C6 amended: a leaf node (no children, non-empty text) with type "" is   *)
(* labelled with the sentinel type quote, and a leaf node with a           *)
(* whitespace-only type with the sentinel type token; an internal node     *)
(* with type "" is labelled unknown and an internal node with a            *)
(* whitespace-only type keeps its (escaped) type.                          *)
(***************************************************************************)
C6_SentinelsForLeaves ==
    Called =>
        \A n \in Nodes(tree) :
            /\ DeclPos(n) > 0
            /\ (LeafNode(n) /\ tree.type[n] = <<>>) =>
                   HasPrefix(LabelOf(DeclOf(n)), QuoteType \o LineBreak)
            /\ (LeafNode(n) /\ WhitespaceOnly(tree.type[n])) =>
                   HasPrefix(LabelOf(DeclOf(n)), TokenType \o LineBreak)
            /\ (~LeafNode(n) /\ tree.type[n] = <<>>) =>
                   LabelOf(DeclOf(n)) = UnknownType
            /\ (~LeafNode(n) /\ WhitespaceOnly(tree.type[n])) =>
                   LabelOf(DeclOf(n)) = escape_label(tree.type[n])

C6_Witness ==
    /\ Called
    /\ LeafNode(tree.root)
    /\ tree.type[tree.root] = <<" ", "\t">>
    /\ HasPrefix(LabelOf(DeclOf(tree.root)), TokenType \o LineBreak)

(***************************************************************************)
(* C7: the text segment of a leaf's label is escape_label of the first 17  *)
(* characters of the text followed by "..." when the text is longer than   *)
(* 20 characters, and of the whole text otherwise; before escaping the     *)
(* segment never exceeds 20 characters.                                    *)
(***************************************************************************)
ShownText(text) ==
    IF Len(text) > 20
    THEN [i \in 1..20 |-> IF i <= 17 THEN text[i] ELSE "."]
    ELSE text

C7_LeafTextTruncation ==
    Called =>
        \A n \in Nodes(tree) :
            LeafNode(n) =>
                /\ Len(ShownText(tree.text[n].bytes)) <= 20
                /\ \E ty \in {tree.type[n], QuoteType, TokenType} :
                       LabelOf(DeclOf(n)) =
                           escape_label(ty) \o LineBreak
                               \o escape_label(ShownText(tree.text[n].bytes))

C7_Witness ==
    /\ Called
    /\ LeafNode(tree.root)
    /\ Len(tree.text[tree.root].bytes) = 21
    /\ tree.text[tree.root].bytes[17] = "\""
    /\ HasSuffix(LabelOf(DeclOf(tree.root)), <<"\\", "\"", ".", ".", ".">>)

(***************************************************************************)
(* C8: a node gets the leaf style (lightblue, label type\ntext) iff it has *)
(* no children and non-empty text; every other node, a childless node with *)
(* empty or absent text included, is lightgreen and labelled with its      *)
(* escaped type only (unknown when the type is empty).                     *)
(***************************************************************************)
C8_LeafIffChildlessWithText ==
    Called =>
        \A n \in Nodes(tree) :
            /\ DeclPos(n) > 0
            /\ ColorOf(DeclOf(n)) = LightBlue <=>
                   (Len(tree.children[n]) = 0 /\ ~tree.text[n].is_none
                        /\ Len(tree.text[n].bytes) > 0)
            /\ ColorOf(DeclOf(n)) \in {LightBlue, LightGreen}
            /\ ColorOf(DeclOf(n)) = LightBlue =>
                   \E ty \in {tree.type[n], QuoteType, TokenType} :
                       /\ HasPrefix(LabelOf(DeclOf(n)),
                                    escape_label(ty) \o LineBreak)
                       /\ Len(LabelOf(DeclOf(n))) >
                              Len(escape_label(ty) \o LineBreak)
            /\ ColorOf(DeclOf(n)) = LightGreen =>
                   LabelOf(DeclOf(n)) =
                       escape_label(IF tree.type[n] = <<>> THEN UnknownType
                                    ELSE tree.type[n])

C8_Witness ==
    /\ Called
    /\ Len(tree.children[tree.root]) = 0
    /\ tree.text[tree.root] \in {NoneText, Bytes(<<>>)}
    /\ ColorOf(DeclOf(tree.root)) = LightGreen
    /\ LabelOf(DeclOf(tree.root)) = <<"i", "d">>

(***************************************************************************)
(* C9: main returns 1 exactly when the input file is missing, reading or   *)
(* parsing it fails, or writing the DOT document fails, and 0 otherwise;   *)
(* on an input error save_dot_file is never reached and the output file is *)
(* left as it was; the outcome of generate_image does not change the exit  *)
(* code.                                                                   *)
(***************************************************************************)
InputError ==
    env.exists = "no" \/ env.parse \in {"not_found", "error"}

OutputError ==
    env.save \in {"open_fails", "write_fails"}

TreeHasCppNode ==
    /\ ~hdr.content.blank
    /\ \E n \in DOMAIN hdr.content.parse.type :
           hdr.content.parse.type[n] \in CPP_ONLY_NODE_TYPES

HasCppSibling ==
    \E i \in 1..Len(hdr.listing.entries) :
        LET e == hdr.listing.entries[i]
        IN  /\ ~e.is_self
            /\ e.is_file
            /\ lower(e.suffix) \in CPP_SOURCE_SUFFIXES

C10_CppIffNodeOrSibling ==
    (hdr_done # "no" /\ hdr.content.readable) =>
        /\ cpp_ret = (TreeHasCppNode \/ HasCppSibling)
        /\ hdr_done = "check" => c_ret = ~cpp_ret

=============================================================================
